---- MODULE Spec2Model ----
(***************************************************************************)
(* A model of youtube_downloader.py: one Streamlit script run of main()    *)
(* (URL validation, metadata extraction, format selection), the download   *)
(* session it starts through download_video, and the progress hook the     *)
(* downloader calls while it fetches.                                      *)
(*                                                                         *)
(* Python values: an optional value (None / a value) is a sequence of      *)
(* length 0 or 1; a string that the code slices is a sequence of tokens.   *)
(***************************************************************************)
EXTENDS Integers, Sequences, FiniteSets, TLC

\* ------------------------------------------------------------- bounds
\* Longest raw format list the extraction service returns.
MaxFormats == 2
\* Script runs (Streamlit reruns) in one behaviour.
MaxRuns == 2
\* Progress events delivered to the hook when it is driven on its own.
MaxEvents == 3

\* ------------------------------------------------------------- constants
\* format_size: the step between two units.
UnitStep == 1024

None == <<>>
Some(x) == <<x>>
\* Python truthiness of an optional integer: None and 0 are falsy.
TruthyInt(o) == o # None /\ o[1] # 0
\* Python truthiness of an optional string (a token sequence): None and "" are falsy.
TruthyStr(o) == o # None /\ o[1] # <<>>

\* ------------------------------------------------------------- URLs
\* A URL as urlparse splits it: netloc, path (tokens, the first one the
\* leading "/"), and the values of the query parameter v as parse_qs lists
\* them (blank values are dropped by parse_qs, so a listed value is non-empty).
\* malformed: urlparse raises ValueError on it.
Url(netloc, path, v, malformed) ==
  [netloc |-> netloc, path |-> path, v |-> v, malformed |-> malformed]
ParsedUrls ==
  { Url("www.youtube.com", <<"/", "watch">>, <<"dQw4">>, FALSE),
    Url("youtube.com", <<"/", "watch">>, <<>>, FALSE),
    Url("www.youtube.com", <<"/", "dQw4">>, <<"dQw4">>, FALSE),
    Url("youtu.be", <<"/", "dQw4">>, <<>>, FALSE),
    Url("youtu.be", <<"/">>, <<>>, FALSE),
    Url("youtu.be", <<>>, <<"dQw4">>, FALSE),
    Url("m.youtube.com", <<"/", "watch">>, <<"dQw4">>, FALSE),
    Url("youtube.com", <<"/", "watch">>, <<"dQw4">>, TRUE) }
\* The text input: empty, or a URL.
UrlInputs == {None} \cup {Some(u) : u \in ParsedUrls}

\* path[1:]
DropFirst(s) == IF s = <<>> THEN <<>> ELSE Tail(s)

\* is_valid_youtube_url(url): the video id, or None.
is_valid_youtube_url(url) ==
  IF url.malformed THEN None
  ELSE IF url.netloc \notin {"www.youtube.com", "youtube.com", "youtu.be"} THEN None
  ELSE IF url.netloc = "youtu.be" THEN Some(DropFirst(url.path))
  ELSE IF url.path = <<"/", "watch">>
       THEN (IF url.v = <<>> THEN None ELSE Some(<<url.v[1]>>))
  ELSE None

\* ------------------------------------------------------------- format_size
Units == <<"B", "KB", "MB", "GB">>

\* The text "{x:.2f}" of num/den, as the number of hundredths, rounded to nearest.
TwoDecimals(num, den) == (2 * 100 * num + den) \div (2 * den)

RECURSIVE FormatSizeFrom(_, _, _)
FormatSizeFrom(num, den, i) ==
  IF i > Len(Units) THEN [hundredths |-> TwoDecimals(num, den), unit |-> "GB"]
  ELSE IF num < UnitStep * den THEN [hundredths |-> TwoDecimals(num, den), unit |-> Units[i]]
  ELSE FormatSizeFrom(num, den * UnitStep, i + 1)

\* format_size(bytes): the text, as (hundredths, unit).
format_size(bytes) == FormatSizeFrom(bytes, 1, 1)

NA == [hundredths |-> 0, unit |-> "N/A"]

\* ------------------------------------------------------------- the catalog
\* Raw stream records of the extraction service. filesize is optional.
RawPool ==
  { [format_id |-> "137", ext |-> "mp4",  vcodec |-> "avc1", acodec |-> "none",
     resolution |-> "1920x1080", format_note |-> "1080p", filesize |-> None],
    [format_id |-> "248", ext |-> "webm", vcodec |-> "vp9",  acodec |-> "none",
     resolution |-> "1920x1080", format_note |-> "1080p", filesize |-> Some(0)],
    [format_id |-> "18",  ext |-> "mp4",  vcodec |-> "avc1", acodec |-> "mp4a",
     resolution |-> "640x360",   format_note |-> "360p",  filesize |-> Some(1536)],
    [format_id |-> "140", ext |-> "m4a",  vcodec |-> "none", acodec |-> "mp4a",
     resolution |-> "audio only", format_note |-> "medium", filesize |-> Some(1536)],
    [format_id |-> "251", ext |-> "webm", vcodec |-> "none", acodec |-> "opus",
     resolution |-> "audio only", format_note |-> "medium", filesize |-> Some(1537)],
    [format_id |-> "sb0", ext |-> "mhtml", vcodec |-> "none", acodec |-> "none",
     resolution |-> "48x27", format_note |-> "storyboard", filesize |-> None] }

\* info['formats'] of the extraction service: format ids are unique in it.
RawCatalogs ==
  UNION { { s \in [1..n -> RawPool] :
              \A i, j \in 1..n : i # j => s[i].format_id # s[j].format_id }
          : n \in 0..MaxFormats }

\* The format_info of one raw record (lines 63-77).
FormatInfo(f) ==
  LET size == IF TruthyInt(f.filesize) THEN format_size(f.filesize[1]) ELSE NA
  IN [format_id |-> f.format_id,
      ext |-> f.ext,
      filesize |-> size,
      format_note |-> f.format_note,
      vcodec |-> f.vcodec,
      acodec |-> f.acodec,
      resolution |-> f.resolution,
      description |->
        IF f.vcodec = "none"
        THEN <<"Audio only", f.format_note, size>>
        ELSE <<"Video", f.resolution, size>>]

RECURSIVE BuildFormats(_)
BuildFormats(raw) ==
  IF raw = <<>> THEN <<>>
  ELSE IF Head(raw).vcodec = "none" /\ Head(raw).acodec = "none"
       THEN BuildFormats(Tail(raw))
       ELSE <<FormatInfo(Head(raw))>> \o BuildFormats(Tail(raw))

NoInfo == [ok |-> FALSE, formats |-> <<>>]

\* get_video_info(url): the result for what the extraction service answers;
\* raises: extract_info raised, the except clause returns None.
get_video_info(raises, raw) ==
  IF raises THEN NoInfo ELSE [ok |-> TRUE, formats |-> BuildFormats(raw)]

IsVideoFormat(f) == f.vcodec # "none"
\* The audio filter without its test of the video codec.
IsAudioFormatLoose(f) == f.acodec # "none"
IsAudioFormat(f) == f.vcodec = "none" /\ f.acodec # "none"

video_formats(info) == SelectSeq(info.formats, IsVideoFormat)
audio_formats(info) == SelectSeq(info.formats, IsAudioFormat)

FormatTypes == {"Video", "Audio only"}
TypeFormats(info, format_type) ==
  IF format_type = "Video" THEN video_formats(info) ELSE audio_formats(info)

\* {f['description']: f['format_id'] for f in formats}: a later entry with the
\* same key replaces an earlier one.
DictOf(formats) ==
  [d \in {formats[i].description : i \in 1..Len(formats)} |->
     LET last == CHOOSE i \in 1..Len(formats) :
                   /\ formats[i].description = d
                   /\ \A j \in 1..Len(formats) : formats[j].description = d => j <= i
     IN formats[last].format_id]

build_format_options(inf, ft) == DictOf(TypeFormats(inf, ft))

\* st.selectbox(options=list(format_options.keys())): what the user can pick;
\* with no option the widget returns None.
Selectable(opts) ==
  IF DOMAIN opts = {} THEN {None} ELSE {Some(d) : d \in DOMAIN opts}

\* ------------------------------------------------------------- directories
Cwd == "cwd"
\* os.path.join(os.getcwd(), "downloads")
downloads_dir == "cwd/downloads"
\* The save-directory text input: empty, or a directory.
SaveDirInputs == {"", "cwd/downloads", "cwd/videos"}
\* if not save_dir: save_dir = os.getcwd()
EffectiveSaveDir(text) == IF text = "" THEN Cwd ELSE text

\* ------------------------------------------------------------- messages
Msg(level, text, detail) == [level |-> level, text |-> text, detail |-> detail]
MsgInvalidUrl == Msg("error", "Invalid YouTube URL", "")
MsgExtractError == Msg("error", "Error extracting video information", "")
MsgDownloadError == Msg("error", "Error downloading video", "DownloadError")
MsgSuccess == Msg("success", "Successfully downloaded!", "")
MsgFailed == Msg("error", "Download failed. Please try again.", "")
\* The outer except clause: "Error: " + str(e), then the tips.
MsgException(detail) == Msg("error", "Error", detail)

\* ------------------------------------------------------------- the progress hook
\* (downloaded / total) * 100
Percent == 100

\* The progress events the downloader delivers; every field but status is optional.
ProgressEvents ==
  [status : {"downloading"},
   downloaded_bytes : {None, Some(1), Some(3)},
   total_bytes : {Some(0), Some(2)},
   total_bytes_estimate : {None, Some(2), Some(4)}]
  \cup {[status |-> "finished", downloaded_bytes |-> Some(2),
         total_bytes |-> Some(2), total_bytes_estimate |-> None]}

\* a or b
OrElse(a, b) == IF TruthyInt(a) THEN a ELSE b

\* The body of the try block (lines 113-118). registered: 'progress_bar' is in
\* st.session_state; update_fails: the bar's progress() raises on this call;
\* the bar also raises on a value outside 0..100. shown is the value the bar
\* displays. raises: an exception leaves the block.
HookBody(d, registered, update_fails, shown) ==
  LET total == OrElse(d.total_bytes, d.total_bytes_estimate)
      quiet == [raises |-> FALSE, reported |-> None, shown |-> shown]
  IN IF ~TruthyInt(total) THEN quiet
     ELSE IF d.downloaded_bytes = None
          THEN [raises |-> TRUE, reported |-> None, shown |-> shown]
     ELSE LET progress == (d.downloaded_bytes[1] * Percent) \div total[1]
              rejected == update_fails \/ progress \notin 0..Percent
          IN IF ~registered THEN quiet
             ELSE [raises |-> rejected,
                   reported |-> Some(progress),
                   shown |-> IF rejected THEN shown ELSE progress]

\* The hook with its except clause removed: what the body raises leaves the hook.
download_progress_hook_unguarded(d, registered, update_fails, shown) ==
  IF d.status # "downloading"
  THEN [raised |-> FALSE, caught |-> FALSE, reported |-> None, shown |-> shown]
  ELSE LET b == HookBody(d, registered, update_fails, shown)
       IN [raised |-> b.raises, caught |-> FALSE, reported |-> b.reported, shown |-> b.shown]

\* download_progress_hook(d): raised: an exception leaves the hook; caught: the
\* bare except clause swallowed one.
download_progress_hook(d, registered, update_fails, shown) ==
  IF d.status # "downloading"
  THEN [raised |-> FALSE, caught |-> FALSE, reported |-> None, shown |-> shown]
  ELSE LET b == HookBody(d, registered, update_fails, shown)
       IN [raised |-> FALSE, caught |-> b.raises, reported |-> b.reported, shown |-> b.shown]

\* ------------------------------------------------------------- download_video
\* download_video returning True whatever the fetch did.
download_video_result_always(fetch_raised) == TRUE

\* download_video's return value: False from the except clause, else True.
download_video_result(fetch_raised) == ~fetch_raised

\* What download_video and then main (lines 220-223) show.
DownloadMessages(fetch_raised) ==
  (IF fetch_raised THEN {MsgDownloadError} ELSE {})
    \cup (IF download_video_result(fetch_raised) THEN {MsgSuccess} ELSE {MsgFailed})

\* The tracks of the stream a format id denotes: what a fetch of that format
\* alone ('format': format_id) writes.
StreamTracks(inf, format_id) ==
  UNION { (IF inf.formats[i].vcodec # "none" THEN {"video"} ELSE {})
            \cup (IF inf.formats[i].acodec # "none" THEN {"audio"} ELSE {})
          : i \in {j \in 1..Len(inf.formats) : inf.formats[j].format_id = format_id} }

\* ------------------------------------------------------------- state
VARIABLES
  pc,                 \* "start": waiting for input; "downloading": inside ydl.download;
                      \* "done": main finished after a download; "ended": main finished
                      \* without one; "hook": the hook is driven on its own
  runs,               \* script runs so far
  video_url,          \* the URL text input (optional)
  video_id,           \* is_valid_youtube_url's result
  info,               \* get_video_info's result
  info_url,           \* the URL get_video_info was called with (optional)
  format_type,        \* the radio's value, "" before it is shown
  format_options,     \* description -> format_id
  selected_format_id, \* optional
  save_dir,           \* after the default is applied, "" before
  download_call,      \* the arguments of the download_video call, if one was made
  fetch_raised,       \* ydl.download raised
  success,            \* download_video's return value (optional)
  downloaded,         \* the file a finished fetch left: directory and tracks (optional)
  messages,           \* what this run showed
  files,              \* the file system: directory and kind ("part" / "final")
  bar_registered,     \* 'progress_bar' in st.session_state
  bar_value,          \* what the progress bar displays
  hook_raised,        \* an exception left download_progress_hook
  hook_caught,        \* the last hook call swallowed an exception
  hook_calls,         \* hook calls so far, when the hook is driven on its own
  hook_log            \* the values passed to the bar's progress(), in order

locals == <<video_url, video_id, info, info_url, format_type, format_options,
            selected_format_id, save_dir, download_call, fetch_raised, success,
            downloaded, messages>>
hookvars == <<bar_registered, bar_value, hook_raised, hook_caught, hook_calls, hook_log>>
vars == <<pc, runs, locals, files, hookvars>>

NoCall == [started |-> FALSE, url |-> None, save_dir |-> "", format_id |-> None,
           is_audio |-> FALSE]

Init ==
  /\ pc = "start"
  /\ runs = 0
  /\ video_url = None
  /\ video_id = None
  /\ info = NoInfo
  /\ info_url = None
  /\ format_type = ""
  /\ format_options = <<>>
  /\ selected_format_id = None
  /\ save_dir = ""
  /\ download_call = NoCall
  /\ fetch_raised = FALSE
  /\ success = None
  /\ downloaded = None
  /\ messages = {}
  /\ files = {}
  /\ bar_registered = FALSE
  /\ bar_value = 0
  /\ hook_raised = FALSE
  /\ hook_caught = FALSE
  /\ hook_calls = 0
  /\ hook_log = <<>>

\* ------------------------------------------------------------- main
\* if not video_id: ... return  (line 155): main goes on only with a truthy id.
ProceedsAlways(vid) == TRUE

Proceeds(vid) == TruthyStr(vid)

\* main returns, or its outer except clause ends it, before a download.
Ends(url, vid, inf, iurl, ft, opts, msgs) ==
  /\ pc' = "ended"
  /\ video_url' = url
  /\ video_id' = vid
  /\ info' = inf
  /\ info_url' = iurl
  /\ format_type' = ft
  /\ format_options' = opts
  /\ messages' = msgs
  /\ UNCHANGED <<selected_format_id, save_dir, download_call, fetch_raised, success,
                 downloaded, files, hookvars>>

\* One script run of main() up to the download: the widgets' values are the inputs.
Run ==
  /\ pc = "start"
  /\ runs < MaxRuns
  /\ runs' = runs + 1
  /\ \E url \in UrlInputs :
       IF url = None
       THEN Ends(url, None, NoInfo, None, "", <<>>, {})
       ELSE LET vid == is_valid_youtube_url(url[1]) IN
         IF ~Proceeds(vid)
         THEN Ends(url, vid, NoInfo, None, "", <<>>, {MsgInvalidUrl})
         ELSE \E raises \in BOOLEAN, raw \in RawCatalogs :
           LET inf == get_video_info(raises, raw) IN
           IF ~inf.ok
           THEN \* extract_info raised: whatever the service would have listed
                \* is lost, so one raw value stands for all of them
                raw = <<>> /\ Ends(url, vid, inf, url, "", <<>>, {MsgExtractError})
           ELSE \E ft \in FormatTypes :
             LET opts == build_format_options(inf, ft) IN
             \E choice \in Selectable(opts) :
               IF choice = None
               THEN \* format_options[None]: KeyError, caught at line 232
                    Ends(url, vid, inf, url, ft, opts, {MsgException("None")})
               ELSE \E text \in SaveDirInputs, pressed \in BOOLEAN :
                 /\ video_url' = url
                 /\ video_id' = vid
                 /\ info' = inf
                 /\ info_url' = url
                 /\ format_type' = ft
                 /\ format_options' = opts
                 /\ selected_format_id' = Some(opts[choice[1]])
                 /\ save_dir' = EffectiveSaveDir(text)
                 /\ messages' = {}
                 /\ UNCHANGED <<fetch_raised, success, downloaded, files,
                                hook_raised, hook_caught, hook_calls, hook_log>>
                 /\ IF pressed
                    THEN /\ pc' = "downloading"
                         /\ bar_registered' = TRUE
                         /\ bar_value' = 0
                         /\ download_call' =
                              [started |-> TRUE, url |-> url,
                               save_dir |-> EffectiveSaveDir(text),
                               format_id |-> Some(opts[choice[1]]),
                               is_audio |-> (ft = "Audio only")]
                    ELSE /\ pc' = "ended"
                         /\ UNCHANGED <<bar_registered, bar_value, download_call>>

\* ------------------------------------------------------------- the fetch
PartFile(dir) == [dir |-> dir, kind |-> "part"]
FinalFile(dir) == [dir |-> dir, kind |-> "final"]

\* ydl.download raised: download_video's except clause, then main's report.
\* Nothing removes what the fetch wrote.
Failed ==
  /\ pc' = "done"
  /\ fetch_raised' = TRUE
  /\ success' = Some(download_video_result(TRUE))
  /\ messages' = messages \cup DownloadMessages(TRUE)
  /\ UNCHANGED <<runs, video_url, video_id, info, info_url, format_type, format_options,
                 selected_format_id, save_dir, download_call, downloaded, files>>

\* The downloader starts writing <name>.part in the target directory.
FetchWrite ==
  /\ pc = "downloading"
  /\ PartFile(download_call.save_dir) \notin files
  /\ files' = files \cup {PartFile(download_call.save_dir)}
  /\ UNCHANGED <<pc, runs, locals, hookvars>>

\* The downloader delivers a progress event to the hook: it has written a block.
FetchProgress ==
  /\ pc = "downloading"
  /\ PartFile(download_call.save_dir) \in files
  /\ \E d \in ProgressEvents, update_fails \in BOOLEAN :
       LET r == download_progress_hook(d, bar_registered, update_fails, bar_value) IN
       /\ bar_value' = r.shown
       /\ hook_raised' = r.raised
       /\ UNCHANGED <<bar_registered, hook_caught, hook_calls, hook_log>>
       /\ IF r.raised
          THEN Failed
          ELSE UNCHANGED <<pc, runs, locals, files>>

\* The fetch completes: the .part file becomes the output file.
FetchFinish ==
  /\ pc = "downloading"
  /\ PartFile(download_call.save_dir) \in files
  /\ pc' = "done"
  /\ files' = (files \ {PartFile(download_call.save_dir)})
                 \cup {FinalFile(download_call.save_dir)}
  /\ downloaded' = Some([dir |-> download_call.save_dir,
                         tracks |-> StreamTracks(info, download_call.format_id[1])])
  /\ success' = Some(download_video_result(FALSE))
  /\ messages' = messages \cup DownloadMessages(FALSE)
  /\ UNCHANGED <<runs, video_url, video_id, info, info_url, format_type, format_options,
                 selected_format_id, save_dir, download_call, fetch_raised, hookvars>>

\* The fetch fails (network, disk), before or after it wrote anything.
FetchFail ==
  /\ pc = "downloading"
  /\ Failed
  /\ UNCHANGED hookvars

\* The script is over; the next interaction runs it again from the top. The
\* file system and st.session_state outlive the run.
Rerun ==
  /\ pc \in {"ended", "done"}
  /\ runs < MaxRuns
  /\ pc' = "start"
  /\ video_url' = None
  /\ video_id' = None
  /\ info' = NoInfo
  /\ info_url' = None
  /\ format_type' = ""
  /\ format_options' = <<>>
  /\ selected_format_id' = None
  /\ save_dir' = ""
  /\ download_call' = NoCall
  /\ fetch_raised' = FALSE
  /\ success' = None
  /\ downloaded' = None
  /\ messages' = {}
  /\ bar_value' = 0
  /\ UNCHANGED <<runs, files, bar_registered, hook_raised, hook_caught, hook_calls, hook_log>>

Next == Run \/ FetchWrite \/ FetchProgress \/ FetchFinish \/ FetchFail \/ Rerun

Spec == Init /\ [][Next]_vars

\* ------------------------------------------------------------- the hook on its own
\* The downloader calls the hook with any event, whether or not a progress bar
\* is registered in the session state.
HookInit ==
  /\ pc = "hook"
  /\ runs = 0
  /\ video_url = None
  /\ video_id = None
  /\ info = NoInfo
  /\ info_url = None
  /\ format_type = ""
  /\ format_options = <<>>
  /\ selected_format_id = None
  /\ save_dir = ""
  /\ download_call = NoCall
  /\ fetch_raised = FALSE
  /\ success = None
  /\ downloaded = None
  /\ messages = {}
  /\ files = {}
  /\ bar_registered \in BOOLEAN
  /\ bar_value = 0
  /\ hook_raised = FALSE
  /\ hook_caught = FALSE
  /\ hook_calls = 0
  /\ hook_log = <<>>

HookCall ==
  /\ pc = "hook"
  /\ hook_calls < MaxEvents
  /\ ~hook_raised
  /\ \E d \in ProgressEvents, update_fails \in BOOLEAN :
       LET r == download_progress_hook(d, bar_registered, update_fails, bar_value) IN
       /\ bar_value' = r.shown
       /\ hook_raised' = r.raised
       /\ hook_caught' = r.caught
       /\ hook_calls' = hook_calls + 1
       /\ hook_log' = hook_log \o r.reported
  /\ UNCHANGED <<pc, runs, locals, files, bar_registered>>

HookNext == HookCall

HookSpec == HookInit /\ [][HookNext]_vars

\* ------------------------------------------------------------- properties
Finished == pc \in {"ended", "downloading", "done"}
FormShown == Finished /\ info.ok /\ format_type \in FormatTypes
ListedIds(inf, ft) ==
  {TypeFormats(inf, ft)[i].format_id : i \in 1..Len(TypeFormats(inf, ft))}

\* C1: a download in "Video" mode that completes successfully leaves a file
\* with both a video track and an audio track.
C1_VideoDownloadHasBothTracks ==
  (pc = "done" /\ success = Some(TRUE) /\ format_type = "Video")
    => /\ downloaded # None
       /\ downloaded[1].tracks = {"video", "audio"}

\* C2: when the fetch raises, download_video returns False and main shows the
\* failure message and not the success message; the success message is shown
\* only after a fetch that completed without error.
C2_NoErrorBecomesSuccess ==
  /\ (pc = "done" /\ fetch_raised)
       => /\ success = Some(FALSE)
          /\ MsgFailed \in messages
          /\ MsgSuccess \notin messages
  /\ MsgSuccess \in messages
       => /\ pc = "done"
          /\ ~fetch_raised
          /\ downloaded # None

\* A fetch failed after it had written part of the file, and main reported it.
C2_Witness ==
  /\ pc = "done"
  /\ fetch_raised
  /\ PartFile(download_call.save_dir) \in files
  /\ MsgFailed \in messages

\* C3: once download_video has returned, no partial file of the session is
\* left in the target directory.
C3_NoPartialFileRemains ==
  pc = "done" => PartFile(download_call.save_dir) \notin files

\* C4: every value the hook passes to the progress bar is within 0..100 and
\* not lower than the one passed before it.
C4_ProgressInRangeAndMonotonic ==
  \A i \in 1..Len(hook_log) :
    /\ hook_log[i] \in 0..Percent
    /\ i > 1 => hook_log[i - 1] <= hook_log[i]

\* C5: no exception ever leaves download_progress_hook, whatever the event,
\* with or without a registered progress bar, and when the bar's update fails.
C5_HookNeverRaises == ~hook_raised

\* The hook swallowed a failure (a failed bar update, or an event it cannot
\* compute with) and was called before.
C5_Witness == hook_caught /\ hook_calls > 1

\* C6: when the catalog has no stream of the kind the mode needs, no download
\* is started and the error shown names the missing kind.
C6_MissingKindIsNamed ==
  (FormShown /\ TypeFormats(info, format_type) = <<>>)
    => /\ ~download_call.started
       /\ \E m \in messages :
            m.detail = (IF format_type = "Video"
                        THEN "NoVideoAvailable" ELSE "NoAudioAvailable")

\* C7: in "Audio only" mode the format id passed to download_video is that of
\* a catalog entry with video codec "none" and an audio codec, and of no entry
\* that carries a video track.
C7_AudioOnlySelectsAudio ==
  (download_call.started /\ download_call.is_audio)
    => /\ \E i \in 1..Len(info.formats) :
            info.formats[i].format_id = download_call.format_id[1]
       /\ \A i \in 1..Len(info.formats) :
            info.formats[i].format_id = download_call.format_id[1]
              => /\ info.formats[i].vcodec = "none"
                 /\ info.formats[i].acodec # "none"

\* An audio-only download was started from a catalog that also has a stream
\* with a video track.
C7_Witness ==
  /\ download_call.started
  /\ download_call.is_audio
  /\ \E i \in 1..Len(info.formats) : info.formats[i].vcodec # "none"

\* C8: after a successful download the file is in the downloads directory.
C8_FileInDownloadsFolder ==
  success = Some(TRUE)
    => /\ downloaded # None
       /\ downloaded[1].dir = downloads_dir
       /\ FinalFile(downloads_dir) \in files

\* C9: every format in the list of the chosen type has an option that yields
\* its own format id.
C9_EveryListedFormatSelectable ==
  FormShown
    => \A id \in ListedIds(info, format_type) :
         \E d \in DOMAIN format_options : format_options[d] = id

\* C10: download_video is called only with the URL that is_valid_youtube_url
\* gave a non-empty id for and get_video_info gave a result for, and with a
\* format id from that result's list of the chosen type; after a failed
\* validation or extraction no download is started.
C10_DownloadOnlyAfterValidationAndInfo ==
  /\ download_call.started
       => /\ download_call.url = video_url
          /\ video_url # None
          /\ video_id = is_valid_youtube_url(video_url[1])
          /\ TruthyStr(video_id)
          /\ info.ok
          /\ info_url = download_call.url
          /\ download_call.is_audio = (format_type = "Audio only")
          /\ download_call.format_id[1] \in ListedIds(info, format_type)
  /\ (Finished /\ (~TruthyStr(video_id) \/ ~info.ok))
       => /\ ~download_call.started
          /\ pc = "ended"

\* A download was started.
C10_Witness == pc = "downloading" /\ download_call.started /\ TruthyStr(video_id)

====
